---- MODULE Spec2Model ----
(***************************************************************************)
(* A model of tinyexpr (src/tinyexpr.c): the lexer next_token, the         *)
(* recursive-descent parser list/expr/term/factor/power/base, the node     *)
(* allocator new_expr with te_free, the folding pass optimize, the         *)
(* evaluator te_eval and the entry point te_compile.                       *)
(*                                                                         *)
(* The C functions mutate a `state` structure and the allocator's globals; *)
(* the operators below are pure, so every parser operator takes the record *)
(* s (struct state, together with the expression text, the node memory and *)
(* the allocator's bookkeeping) and returns the updated record, with the   *)
(* returned node pointer where the C function returns one.                 *)
(*                                                                         *)
(* The two build-time switches the claims speak of are fields of cfg:      *)
(* TE_POW_FROM_RIGHT and TINYEXPR_USE_STATIC_MEMORY.                       *)
(***************************************************************************)
EXTENDS Integers, Sequences, FiniteSets, TLC

\* ------------------------------------------------------------------------
\* Node and token types (bit layout used by the macros of tinyexpr.c:82-87)
\* ------------------------------------------------------------------------

TE_VARIABLE == 0
TE_CONSTANT == 1
TE_FUNCTION0 == 8
TE_CLOSURE0 == 16
TE_FLAG_PURE == 32

TE_FUNCTION1 == TE_FUNCTION0 + 1
TE_FUNCTION2 == TE_FUNCTION0 + 2
TE_CLOSURE1 == TE_CLOSURE0 + 1
TE_CLOSURE2 == TE_CLOSURE0 + 2
TE_CLOSURE7 == TE_CLOSURE0 + 7

TOK_NULL == TE_CLOSURE7 + 1
TOK_ERROR == TOK_NULL + 1
TOK_END == TOK_NULL + 2
TOK_SEP == TOK_NULL + 3
TOK_OPEN == TOK_NULL + 4
TOK_CLOSE == TOK_NULL + 5
TOK_NUMBER == TOK_NULL + 6
TOK_VARIABLE == TOK_NULL + 7
TOK_INFIX == TOK_NULL + 8

TYPE_MASK(type) == type % 32
IS_PURE(type) == (type \div TE_FLAG_PURE) % 2 = 1
IS_FUNCTION(type) == (type \div TE_FUNCTION0) % 2 = 1
IS_CLOSURE(type) == (type \div TE_CLOSURE0) % 2 = 1
ARITY(type) == IF IS_FUNCTION(type) \/ IS_CLOSURE(type) THEN type % 8 ELSE 0

NULL == 0

\* The number of parameter slots of a node: arity 0..7 plus the closure context.
MaxParameters == 8

\* ------------------------------------------------------------------------
\* Characters.  A C string is a sequence of one-character strings followed
\* by the terminating NUL; offsets are 0-based as the C pointers are.
\* ------------------------------------------------------------------------

NUL == "NUL"

At(str, i) == IF i >= 0 /\ i < Len(str) THEN str[i + 1] ELSE NUL

Printable ==
    << " ", "!", "\"", "#", "$", "%", "&", "'", "(", ")", "*", "+", ",", "-",
       ".", "/", "0", "1", "2", "3", "4", "5", "6", "7", "8", "9", ":", ";",
       "<", "=", ">", "?", "@", "A", "B", "C", "D", "E", "F", "G", "H", "I",
       "J", "K", "L", "M", "N", "O", "P", "Q", "R", "S", "T", "U", "V", "W",
       "X", "Y", "Z", "[", "\\", "]", "^", "_", "GRAVE", "a", "b", "c", "d", "e",
       "f", "g", "h", "i", "j", "k", "l", "m", "n", "o", "p", "q", "r", "s",
       "t", "u", "v", "w", "x", "y", "z", "{", "|", "}", "~" >>

\* The character code of c (ASCII), 0 for the terminating NUL.
Ord(c) ==
    IF c = NUL THEN 0
    ELSE IF c = "\t" THEN 9
    ELSE IF c = "\n" THEN 10
    ELSE IF c = "\r" THEN 13
    ELSE 31 + (CHOOSE i \in 1..Len(Printable) : Printable[i] = c)

IsDigit(c) == c \in {"0", "1", "2", "3", "4", "5", "6", "7", "8", "9"}
IsLower(c) ==
    c \in {"a", "b", "c", "d", "e", "f", "g", "h", "i", "j", "k", "l", "m",
           "n", "o", "p", "q", "r", "s", "t", "u", "v", "w", "x", "y", "z"}
DigitVal(c) == Ord(c) - 48

\* strncmp(a + ai, b, n): a is read from offset ai, b from its start; the
\* comparison stops at the first difference, at a NUL, or after n characters.
RECURSIVE strncmp_from(_, _, _, _, _)
strncmp_from(a, ai, b, k, n) ==
    IF k >= n THEN 0
    ELSE LET ca == At(a, ai + k)
             cb == At(b, k)
         IN IF ca # cb THEN Ord(ca) - Ord(cb)
            ELSE IF ca = NUL THEN 0
            ELSE strncmp_from(a, ai, b, k + 1, n)

strncmp(a, ai, b, n) == strncmp_from(a, ai, b, 0, n)

\* ------------------------------------------------------------------------
\* Doubles.  A value is a record [k, n, a]: an exactly represented integer
\* (k = "int"), NaN, an infinity (n is its sign), or the application of a
\* C function to values, left uninterpreted where the result is not an
\* integer in range (k is the function, a its arguments).
\* ------------------------------------------------------------------------

\* Integers up to this magnitude are computed exactly.
MaxExact == 10000

IntV(n) == [k |-> "int", n |-> n, a |-> <<>>]
NAN == [k |-> "nan", n |-> 0, a |-> <<>>]
INFINITY == [k |-> "inf", n |-> 1, a |-> <<>>]
App(f, args) == [k |-> f, n |-> 0, a |-> args]
Zero == IntV(0)

IsInt(v) == v.k = "int"
IsNan(v) == v.k = "nan"
Abs(n) == IF n < 0 THEN -n ELSE n
Sign(n) == IF n < 0 THEN -1 ELSE IF n > 0 THEN 1 ELSE 0

\* An integer result, or the uninterpreted application when it is out of range.
Exact(n, f, args) == IF Abs(n) <= MaxExact THEN IntV(n) ELSE App(f, args)

add(a, b) ==
    IF IsNan(a) \/ IsNan(b) THEN NAN
    ELSE IF IsInt(a) /\ IsInt(b) THEN Exact(a.n + b.n, "add", <<a, b>>)
    ELSE App("add", <<a, b>>)

sub(a, b) ==
    IF IsNan(a) \/ IsNan(b) THEN NAN
    ELSE IF IsInt(a) /\ IsInt(b) THEN Exact(a.n - b.n, "sub", <<a, b>>)
    ELSE App("sub", <<a, b>>)

mul(a, b) ==
    IF IsNan(a) \/ IsNan(b) THEN NAN
    ELSE IF IsInt(a) /\ IsInt(b) THEN Exact(a.n * b.n, "mul", <<a, b>>)
    ELSE App("mul", <<a, b>>)

\* C division truncates toward zero; a / b below is used only when it is exact.
divide(a, b) ==
    IF IsNan(a) \/ IsNan(b) THEN NAN
    ELSE IF IsInt(a) /\ IsInt(b) THEN
        IF b.n = 0 THEN
            (IF a.n = 0 THEN NAN ELSE IF a.n > 0 THEN INFINITY ELSE [INFINITY EXCEPT !.n = -1])
        ELSE IF Abs(a.n) % Abs(b.n) = 0
            THEN IntV(Sign(a.n) * Sign(b.n) * (Abs(a.n) \div Abs(b.n)))
        ELSE App("divide", <<a, b>>)
    ELSE App("divide", <<a, b>>)

\* fmod keeps the sign of the dividend.
fmod(a, b) ==
    IF IsNan(a) \/ IsNan(b) THEN NAN
    ELSE IF IsInt(a) /\ IsInt(b) THEN
        IF b.n = 0 THEN NAN ELSE IntV(Sign(a.n) * (Abs(a.n) % Abs(b.n)))
    ELSE App("fmod", <<a, b>>)

negate(a, b) ==
    IF IsNan(a) THEN NAN
    ELSE IF IsInt(a) THEN IntV(-a.n)
    ELSE IF a.k = "inf" THEN [a EXCEPT !.n = -a.n]
    ELSE App("negate", <<a>>)

\* A comma that keeps its first operand.
comma_first(a, b) == a

comma(a, b) == b

\* base^e for e >= 0, -1 when the magnitude leaves the exact range.
RECURSIVE IntPow(_, _)
IntPow(base, e) ==
    IF e = 0 THEN 1
    ELSE LET r == IntPow(base, e - 1)
         IN IF r = -1 \/ Abs(r * base) > MaxExact THEN -1 ELSE r * base

pow(a, b) ==
    IF IsInt(b) /\ b.n = 0 THEN IntV(1)
    ELSE IF IsInt(a) /\ a.n = 1 THEN IntV(1)
    ELSE IF IsNan(a) \/ IsNan(b) THEN NAN
    ELSE IF IsInt(a) /\ IsInt(b) THEN
        IF b.n > 0 THEN
            (IF a.n \in {0, -1} THEN IntV(IF b.n % 2 = 0 THEN Abs(a.n) ELSE a.n)
             ELSE IF b.n > 20 THEN App("pow", <<a, b>>)
             ELSE LET r == IntPow(Abs(a.n), b.n)
                  IN IF r = -1 THEN App("pow", <<a, b>>)
                     ELSE IntV(IF a.n < 0 /\ b.n % 2 = 1 THEN -r ELSE r))
        ELSE IF a.n = 0 THEN INFINITY
        ELSE IF a.n = -1 THEN IntV(IF b.n % 2 = 0 THEN 1 ELSE -1)
        ELSE App("pow", <<a, b>>)
    ELSE App("pow", <<a, b>>)

\* The decimal forms of strtod: digits [. digits] [e [+|-] digits], at least
\* one digit in the mantissa.  Returns the value and the offset of the first
\* character not converted; with no conversion the value is zero and the
\* offset is the one given.
RECURSIVE DigitsEnd(_, _)
DigitsEnd(str, i) == IF IsDigit(At(str, i)) THEN DigitsEnd(str, i + 1) ELSE i

\* The value of the digits str[from..to-1] continuing the number acc, -1 when
\* it leaves the exact range.
RECURSIVE DigitsValue(_, _, _, _)
DigitsValue(str, from, to, acc) ==
    IF from >= to THEN acc
    ELSE IF acc = -1 \/ acc * 10 + DigitVal(At(str, from)) > MaxExact THEN -1
    ELSE DigitsValue(str, from + 1, to, acc * 10 + DigitVal(At(str, from)))

\* The characters str[from..to-1] as values (their codes): the argument of an
\* unconverted numeral.
SubStr(str, from, to) == [i \in 1..(to - from) |-> IntV(Ord(str[from + i]))]

\* The numeral str[i..end-1] with its integer part ending at intEnd and its
\* fraction at fracEnd: an integer when only zeros follow the point and there
\* is no exponent.
strtod_value(str, i, intEnd, fracEnd, end) ==
    IF end = fracEnd
       /\ (\A j \in (intEnd + 1)..(fracEnd - 1) : At(str, j) = "0")
       /\ DigitsValue(str, i, intEnd, 0) # -1
    THEN [value |-> IntV(DigitsValue(str, i, intEnd, 0)), end |-> end]
    ELSE [value |-> App("strtod", SubStr(str, i, end)), end |-> end]

\* The exponent after the mantissa str[i..fracEnd-1]: e or E, an optional
\* sign (sign is its length), at least one digit.
strtod_exponent(str, i, intEnd, fracEnd, sign) ==
    IF (intEnd - i) + (IF fracEnd > intEnd THEN fracEnd - intEnd - 1 ELSE 0) = 0
    THEN [value |-> Zero, end |-> i]
    ELSE strtod_value(str, i, intEnd, fracEnd,
                      IF At(str, fracEnd) \in {"e", "E"}
                         /\ IsDigit(At(str, fracEnd + 1 + sign))
                      THEN DigitsEnd(str, fracEnd + 1 + sign) ELSE fracEnd)

\* The fraction after the integer part str[i..intEnd-1].
strtod_fraction(str, i, intEnd, fracEnd) ==
    strtod_exponent(str, i, intEnd, fracEnd,
                    IF At(str, fracEnd + 1) \in {"+", "-"} THEN 1 ELSE 0)

strtod(str, i) ==
    strtod_fraction(str, i, DigitsEnd(str, i),
                    IF At(str, DigitsEnd(str, i)) = "."
                    THEN DigitsEnd(str, DigitsEnd(str, i) + 1) ELSE DigitsEnd(str, i))

\* ------------------------------------------------------------------------
\* The builtin table and the two lookups
\* ------------------------------------------------------------------------

Builtin(name, address, type) ==
    [name |-> name, address |-> address, type |-> type + TE_FLAG_PURE, context |-> NULL]

\* static const te_variable functions[], without its terminating {0,0,0,0}
\* entry (TE_NAT_LOG is not defined: log is log10).
functions ==
    << Builtin(<<"a", "b", "s">>, "fabs", TE_FUNCTION1),
       Builtin(<<"a", "c", "o", "s">>, "acos", TE_FUNCTION1),
       Builtin(<<"a", "s", "i", "n">>, "asin", TE_FUNCTION1),
       Builtin(<<"a", "t", "a", "n">>, "atan", TE_FUNCTION1),
       Builtin(<<"a", "t", "a", "n", "2">>, "atan2", TE_FUNCTION2),
       Builtin(<<"c", "e", "i", "l">>, "ceil", TE_FUNCTION1),
       Builtin(<<"c", "o", "s">>, "cos", TE_FUNCTION1),
       Builtin(<<"c", "o", "s", "h">>, "cosh", TE_FUNCTION1),
       Builtin(<<"e">>, "e", TE_FUNCTION0),
       Builtin(<<"e", "x", "p">>, "exp", TE_FUNCTION1),
       Builtin(<<"f", "a", "c">>, "fac", TE_FUNCTION1),
       Builtin(<<"f", "l", "o", "o", "r">>, "floor", TE_FUNCTION1),
       Builtin(<<"l", "n">>, "log", TE_FUNCTION1),
       Builtin(<<"l", "o", "g">>, "log10", TE_FUNCTION1),
       Builtin(<<"l", "o", "g", "1", "0">>, "log10", TE_FUNCTION1),
       Builtin(<<"n", "c", "r">>, "ncr", TE_FUNCTION2),
       Builtin(<<"n", "p", "r">>, "npr", TE_FUNCTION2),
       Builtin(<<"p", "i">>, "pi", TE_FUNCTION0),
       Builtin(<<"p", "o", "w">>, "pow", TE_FUNCTION2),
       Builtin(<<"s", "i", "n">>, "sin", TE_FUNCTION1),
       Builtin(<<"s", "i", "n", "h">>, "sinh", TE_FUNCTION1),
       Builtin(<<"s", "q", "r", "t">>, "sqrt", TE_FUNCTION1),
       Builtin(<<"t", "a", "n">>, "tan", TE_FUNCTION1),
       Builtin(<<"t", "a", "n", "h">>, "tanh", TE_FUNCTION1) >>

\* The binary search of find_builtin over functions[imin..imax] (0-based as
\* in the source); the result is the 1-based index of the entry found, 0 for
\* the null pointer.
RECURSIVE find_builtin_search(_, _, _, _, _)

\* The three outcomes of the comparison c with functions[i].
find_builtin_step(str, start, len, imin, imax, i, c) ==
    IF c = 0 THEN i + 1
    ELSE IF c > 0 THEN find_builtin_search(str, start, len, i + 1, imax)
    ELSE find_builtin_search(str, start, len, imin, i - 1)

\* A comparison that leaves out the terminator of functions[i].name.
find_builtin_prefix(str, start, len, imin, imax, i, entry) ==
    find_builtin_step(str, start, len, imin, imax, i, strncmp(str, start, entry, len))

\* int c = strncmp(name, functions[i].name, len);
\* if (!c) c = '\0' - functions[i].name[len];  with entry = functions[i].name
find_builtin_compare(str, start, len, imin, imax, i, entry) ==
    find_builtin_step(str, start, len, imin, imax, i,
                      IF strncmp(str, start, entry, len) = 0 THEN 0 - Ord(At(entry, len))
                      ELSE strncmp(str, start, entry, len))

find_builtin_search(str, start, len, imin, imax) ==
    IF imax < imin THEN 0
    ELSE find_builtin_compare(str, start, len, imin, imax, imin + ((imax - imin) \div 2),
                              functions[imin + ((imax - imin) \div 2) + 1].name)

find_builtin(str, start, len) ==
    find_builtin_search(str, start, len, 0, Len(functions) - 1)

\* The linear scan of find_lookup from entry k on; the 1-based index of the
\* first binding whose name is the identifier, 0 for the null pointer.
RECURSIVE find_lookup_from(_, _, _, _, _)
find_lookup_from(lookup, k, str, start, len) ==
    IF k > Len(lookup) THEN 0
    ELSE IF strncmp(str, start, lookup[k].name, len) = 0
            /\ At(lookup[k].name, len) = NUL THEN k
    ELSE find_lookup_from(lookup, k + 1, str, start, len)

find_lookup(s, start, len) == find_lookup_from(s.lookup, 1, s.expr, start, len)

\* ------------------------------------------------------------------------
\* The lexer
\* ------------------------------------------------------------------------

RECURSIVE IdentEnd(_, _)
IdentEnd(str, i) ==
    IF IsLower(At(str, i)) \/ IsDigit(At(str, i)) \/ At(str, i) = "_"
    THEN IdentEnd(str, i + 1) ELSE i

\* The token's payload is the union {value, bound, function}: storing one
\* member leaves the others without a meaning, shown as their zero.
SetValue(s, v) == [s EXCEPT !.value = v, !.bound = "", !.function = ""]
SetBound(s, b) == [s EXCEPT !.value = Zero, !.bound = b, !.function = ""]
SetFunction(s, f) == [s EXCEPT !.value = Zero, !.bound = "", !.function = f]

Infix(s, f) == [SetFunction(s, f) EXCEPT !.type = TOK_INFIX, !.next = s.next + 1]

\* The token of a resolved identifier (the switch of next_token); a binding
\* whose type matches no case leaves the token type TOK_NULL.
IdentToken(s, var, end) ==
    LET t == TYPE_MASK(var.type)
        s1 == [s EXCEPT !.next = end]
    IN IF t = TE_VARIABLE THEN [SetBound(s1, var.address) EXCEPT !.type = TOK_VARIABLE]
       ELSE IF t >= TE_CLOSURE0 /\ t <= TE_CLOSURE7
           THEN [SetFunction(s1, var.address) EXCEPT !.type = var.type,
                                                     !.context = var.context]
       ELSE IF t >= TE_FUNCTION0 /\ t <= TE_FUNCTION0 + 7
           THEN [SetFunction(s1, var.address) EXCEPT !.type = var.type]
       ELSE s1

\* The binding for the 1-based indexes li into the caller's array and bi into
\* functions[], 0 for a null pointer, the builtin first.
builtin_or_lookup(s, li, bi) ==
    IF bi # 0 THEN <<functions[bi]>> ELSE IF li # 0 THEN <<s.lookup[li]>> ELSE << >>

\* The two lookups of next_token, the builtins first.
find_variable_builtin_first(s, start, len) ==
    builtin_or_lookup(s, find_lookup(s, start, len), find_builtin(s.expr, start, len))

\* if (!var) var = find_builtin(...): the binding for the 1-based indexes li
\* into the caller's array and bi into functions[], 0 for a null pointer.
lookup_or_builtin(s, li, bi) ==
    IF li # 0 THEN <<s.lookup[li]>> ELSE IF bi # 0 THEN <<functions[bi]>> ELSE << >>

\* var = find_lookup(...); if (!var) var = find_builtin(...): the binding
\* found, as a sequence of one, or << >> for the null pointer.
find_variable(s, start, len) ==
    lookup_or_builtin(s, find_lookup(s, start, len), find_builtin(s.expr, start, len))

\* The token of an identifier that left the scanner back at its start.
error_token_at_start(s, start, end) ==
    [s EXCEPT !.next = start, !.type = TOK_ERROR,
              !.unresolved = IF s.unresolved = -1 THEN start ELSE s.unresolved]

\* The token of an identifier nothing binds: s.next stays past its last
\* character.  `unresolved` remembers where the first such identifier starts.
error_token(s, start, end) ==
    [s EXCEPT !.next = end, !.type = TOK_ERROR,
              !.unresolved = IF s.unresolved = -1 THEN start ELSE s.unresolved]

\* s->value = strtod(s->next, (char**)&s->next); s->type = TOK_NUMBER;
number_token(s, r) == [SetValue(s, r.value) EXCEPT !.next = r.end, !.type = TOK_NUMBER]

\* if (!var) { s->type = TOK_ERROR; } else { switch ... }
identifier_token(s, end, var) ==
    IF var = << >> THEN error_token(s, s.next, end)
    ELSE IdentToken(s, var[1], end)

\* The character c starts an operator or is white space or is unknown.
operator_token(s, c) ==
    IF c = "+" THEN Infix(s, "add")
    ELSE IF c = "-" THEN Infix(s, "sub")
    ELSE IF c = "*" THEN Infix(s, "mul")
    ELSE IF c = "/" THEN Infix(s, "divide")
    ELSE IF c = "^" THEN Infix(s, "pow")
    ELSE IF c = "%" THEN Infix(s, "fmod")
    ELSE IF c = "(" THEN [s EXCEPT !.type = TOK_OPEN, !.next = s.next + 1]
    ELSE IF c = ")" THEN [s EXCEPT !.type = TOK_CLOSE, !.next = s.next + 1]
    ELSE IF c = "," THEN [s EXCEPT !.type = TOK_SEP, !.next = s.next + 1]
    ELSE IF c \in {" ", "\t", "\n", "\r"} THEN [s EXCEPT !.next = s.next + 1]
    ELSE [s EXCEPT !.type = TOK_ERROR, !.next = s.next + 1]

\* A pass that steps over the terminating NUL.
next_token_past_end(s, c) ==
    IF c = NUL THEN [s EXCEPT !.type = TOK_END, !.next = @ + 1]
    ELSE IF IsDigit(c) \/ c = "." THEN number_token(s, strtod(s.expr, s.next))
    ELSE IF IsLower(c)
        THEN identifier_token(s, IdentEnd(s.expr, s.next),
                              find_variable(s, s.next, IdentEnd(s.expr, s.next) - s.next))
    ELSE operator_token(s, c)

\* One pass of the do-while body of next_token, entered with type TOK_NULL
\* and with c the character at s->next.
next_token_at(s, c) ==
    IF c = NUL THEN [s EXCEPT !.type = TOK_END]
    ELSE IF IsDigit(c) \/ c = "." THEN number_token(s, strtod(s.expr, s.next))
    ELSE IF IsLower(c)
        THEN identifier_token(s, IdentEnd(s.expr, s.next),
                              find_variable(s, s.next, IdentEnd(s.expr, s.next) - s.next))
    ELSE operator_token(s, c)

RECURSIVE next_token_loop(_)

\* } while (s->type == TOK_NULL);
next_token_while(s) == IF s.type = TOK_NULL THEN next_token_loop(s) ELSE s

next_token_loop(s) == next_token_while(next_token_at(s, At(s.expr, s.next)))

\* `tokens` counts the calls of next_token.
next_token(s) == next_token_loop([s EXCEPT !.type = TOK_NULL, !.tokens = @ + 1])

\* ------------------------------------------------------------------------
\* Nodes and the allocator.  Node pointers are cell numbers 1..NCells, the
\* cells of te_expr_array in the static-memory build and of the C heap
\* otherwise.
\* ------------------------------------------------------------------------

\* TINYEXPR_MAX_EXPRESSIONS of the static-memory build.
TINYEXPR_MAX_EXPRESSIONS == 3

\* The number of cells: the pool of the static build; for malloc, one more
\* than the expression has characters, which no parse can exhaust (every node
\* but the error node of base comes from a character consumed).
NCells(c, expr_) == IF c.static_memory THEN TINYEXPR_MAX_EXPRESSIONS ELSE Len(expr_) + 1

\* A node after memset(ret, 0, ...).
ZeroNode ==
    [type |-> 0, value |-> Zero, bound |-> "", function |-> "",
     parameters |-> [i \in 0..(MaxParameters - 1) |-> NULL]]

\* The first cell not allocated, 0 when there is none.
FirstFree(s) ==
    LET free == {i \in DOMAIN s.isAllocated : ~s.isAllocated[i]}
    IN IF free = {} THEN 0 ELSE CHOOSE i \in free : \A j \in free : i <= j

\* new_expr(type, parameters); parameters is the compound literal of NEW_EXPR,
\* << >> for the null pointer.  Returns the state and the node pointer.
new_expr(s, type, parameters) ==
    LET arity == ARITY(type)
        i == FirstFree(s)
        node == [ZeroNode EXCEPT
                    !.type = type,
                    !.parameters = IF arity # 0 /\ parameters # << >>
                                   THEN [k \in 0..(MaxParameters - 1) |->
                                            IF k < Len(parameters) THEN parameters[k + 1]
                                            ELSE NULL]
                                   ELSE ZeroNode.parameters]
    IN IF i = 0 THEN
           \* the static pool is exhausted; malloc returning null is passed to memset
           IF s.cfg.static_memory
           THEN [s |-> [s EXCEPT !.alloc_failed = TRUE], ret |-> NULL]
           ELSE [s |-> [s EXCEPT !.ub = TRUE], ret |-> NULL]
       ELSE [s |-> [s EXCEPT !.array[i] = node, !.isAllocated[i] = TRUE], ret |-> i]

\* te_free_once: the static build clears the cell's flag whether or not it was
\* set; free() of a block that is not allocated is undefined.  released_twice
\* counts the releases of a cell that was not allocated.  (The counters of the
\* TINYEXPR_UNIT_TEST build are not modelled.)
te_free_once(s, n) ==
    IF s.cfg.static_memory THEN
        IF n \in DOMAIN s.isAllocated
        THEN [s EXCEPT !.isAllocated[n] = FALSE,
                       !.released_twice = IF s.isAllocated[n] THEN s.released_twice
                                          ELSE s.released_twice + 1]
        ELSE s
    ELSE IF s.isAllocated[n]
        THEN [s EXCEPT !.isAllocated[n] = FALSE]
        ELSE [s EXCEPT !.ub = TRUE, !.released_twice = s.released_twice + 1]

RECURSIVE te_free(_, _)
RECURSIVE te_free_from(_, _, _)

\* The fall-through cases of te_free_parameters from parameters[k] down to
\* parameters[0].
te_free_from(s, n, k) ==
    IF k < 0 THEN s
    ELSE te_free_from(te_free(s, s.array[n].parameters[k]), n, k - 1)

te_free_parameters(s, n) ==
    IF n = NULL THEN s
    ELSE LET t == TYPE_MASK(s.array[n].type)
         IN IF (t > TE_FUNCTION0 /\ t <= TE_FUNCTION0 + 7)
               \/ (t > TE_CLOSURE0 /\ t <= TE_CLOSURE7)
            THEN te_free_from(s, n, (t % 8) - 1)
            ELSE s

te_free(s, n) ==
    IF n = NULL THEN s
    ELSE te_free_once(te_free_parameters(s, n), n)

\* ------------------------------------------------------------------------
\* The parser.  Every operator returns [s, ret]: the state after the call
\* and the node pointer returned.
\* ------------------------------------------------------------------------

\* Stores into a node; value, bound and function are one union.
NodeValue(s, n, v) ==
    [s EXCEPT !.array[n].value = v, !.array[n].bound = "", !.array[n].function = ""]
NodeBound(s, n, b) ==
    [s EXCEPT !.array[n].value = Zero, !.array[n].bound = b, !.array[n].function = ""]
NodeFunction(s, n, f) ==
    [s EXCEPT !.array[n].value = Zero, !.array[n].bound = "", !.array[n].function = f]
NodeParameter(s, n, i, p) == [s EXCEPT !.array[n].parameters[i] = p]

\* ret->function = s->function; if (IS_CLOSURE(s->type)) ret->parameters[arity] = s->context;
NodeCallable(s, n, arity) ==
    LET s1 == NodeFunction(s, n, s.function)
    IN IF IS_CLOSURE(s.type) THEN NodeParameter(s1, n, arity, s.context) ELSE s1

IsInfix(s, fs) == s.type = TOK_INFIX /\ s.function \in fs

RECURSIVE list(_)
RECURSIVE expr(_)
RECURSIVE term(_)
RECURSIVE factor(_)
RECURSIVE power(_)
RECURSIVE base(_)
RECURSIVE base_arguments(_, _, _, _)
RECURSIVE base_arguments_uncounted(_, _, _, _)

\* The result of a parsing function: the state it leaves and what it returns.
Ret(s, ret) == [s |-> s, ret |-> ret]

\* The result with the token type set to TOK_ERROR.
RetError(s, ret) == [s |-> [s EXCEPT !.type = TOK_ERROR], ret |-> ret]

\* The for loop of base leaving i at arity - 1 however many arguments it read.
base_argument_uncounted(ret, i, arity, e) ==
    IF e.s.type # TOK_SEP
    THEN [s |-> NodeParameter(e.s, ret, i, e.ret), i |-> arity - 1]
    ELSE base_arguments_uncounted(NodeParameter(e.s, ret, i, e.ret), ret, i + 1, arity)

base_arguments_uncounted(s, ret, i, arity) ==
    IF i >= arity THEN [s |-> s, i |-> arity - 1]
    ELSE base_argument_uncounted(ret, i, arity, expr(next_token(s)))

\* ret->parameters[i] = expr(s); if (s->type != TOK_SEP) break;
\* with e what expr returned
base_argument(ret, i, arity, e) ==
    IF e.s.type # TOK_SEP THEN [s |-> NodeParameter(e.s, ret, i, e.ret), i |-> i]
    ELSE base_arguments(NodeParameter(e.s, ret, i, e.ret), ret, i + 1, arity)

\* The for loop of base over the arguments of a function of arity >= 2, from
\* iteration i; returns the state and the value of i when the loop is left.
base_arguments(s, ret, i, arity) ==
    IF i >= arity THEN [s |-> s, i |-> i]
    ELSE base_argument(ret, i, arity, expr(next_token(s)))

\* case TOK_NUMBER, with a the result of new_expr
base_number(s, a) ==
    IF a.ret # NULL THEN Ret(next_token(NodeValue(a.s, a.ret, s.value)), a.ret) ELSE a

\* case TOK_VARIABLE
base_variable(s, a) ==
    IF a.ret # NULL THEN Ret(next_token(NodeBound(a.s, a.ret, s.bound)), a.ret) ELSE a

\* if (s->type != TOK_CLOSE) s->type = TOK_ERROR; else next_token(s);
base_close(s, ret) ==
    IF s.type # TOK_CLOSE THEN RetError(s, ret) ELSE Ret(next_token(s), ret)

\* if (s->type == TOK_OPEN) { next_token(s); ... } after the name of a
\* function without arguments
base_parentheses(s, ret) ==
    IF s.type # TOK_OPEN THEN Ret(s, ret) ELSE base_close(next_token(s), ret)

\* case TE_FUNCTION0: case TE_CLOSURE0:
base_function0(a) ==
    IF a.ret = NULL THEN a
    ELSE base_parentheses(next_token(NodeCallable(a.s, a.ret, 0)), a.ret)

\* ret->parameters[0] = power(s); with p what power returned
base_parameter(ret, p) == Ret(NodeParameter(p.s, ret, 0, p.ret), ret)

\* case TE_FUNCTION1: case TE_CLOSURE1:
base_function1(a) ==
    IF a.ret = NULL THEN a
    ELSE base_parameter(a.ret, power(next_token(NodeCallable(a.s, a.ret, 1))))

\* if (s->type != TOK_CLOSE || i != arity - 1) s->type = TOK_ERROR;
\* else next_token(s); with l what the for loop left
base_counted(ret, arity, l) ==
    IF l.i # arity - 1 THEN RetError(l.s, ret) ELSE base_close(l.s, ret)

\* if (s->type != TOK_OPEN) s->type = TOK_ERROR; else { the for loop }
base_call(s, ret, arity) ==
    IF s.type # TOK_OPEN THEN RetError(s, ret)
    ELSE base_counted(ret, arity, base_arguments(s, ret, 0, arity))

\* case TE_FUNCTION2 ... TE_FUNCTION7 and TE_CLOSURE2 ... TE_CLOSURE7
base_function(arity, a) ==
    IF a.ret = NULL THEN a
    ELSE base_call(next_token(NodeCallable(a.s, a.ret, arity)), a.ret, arity)

\* case TOK_OPEN, with r what list returned
base_open(r) == IF r.ret = NULL THEN r ELSE base_close(r.s, r.ret)

\* A default case that reads the next token over the one it rejects.
base_default_skipping(a) ==
    IF a.ret # NULL
    THEN Ret(NodeValue(next_token(a.s), a.ret, NAN), a.ret)
    ELSE a

\* default:
base_default(a) ==
    IF a.ret # NULL
    THEN Ret(NodeValue([a.s EXCEPT !.type = TOK_ERROR], a.ret, NAN), a.ret)
    ELSE a

\* switch (TYPE_MASK(s->type))
base(s) ==
    IF TYPE_MASK(s.type) = TOK_NUMBER THEN base_number(s, new_expr(s, TE_CONSTANT, << >>))
    ELSE IF TYPE_MASK(s.type) = TOK_VARIABLE
        THEN base_variable(s, new_expr(s, TE_VARIABLE, << >>))
    ELSE IF TYPE_MASK(s.type) \in {TE_FUNCTION0, TE_CLOSURE0}
        THEN base_function0(new_expr(s, s.type, << >>))
    ELSE IF TYPE_MASK(s.type) \in {TE_FUNCTION1, TE_CLOSURE1}
        THEN base_function1(new_expr(s, s.type, << >>))
    ELSE IF TYPE_MASK(s.type) \in (TE_FUNCTION2..(TE_FUNCTION0 + 7)) \cup (TE_CLOSURE2..TE_CLOSURE7)
        THEN base_function(ARITY(s.type), new_expr(s, s.type, << >>))
    ELSE IF TYPE_MASK(s.type) = TOK_OPEN THEN base_open(list(next_token(s)))
    ELSE base_default(new_expr(s, 0, << >>))

\* power keeping what base returned whatever the signs before it.
power_sign_dropped(sign, b) == b

\* The negate node a over what base returned, b.
power_negate(b, a) ==
    IF a.ret # NULL THEN Ret(NodeFunction(a.s, a.ret, "negate"), a.ret)
    ELSE Ret(te_free(a.s, b.ret), NULL)

\* te_expr *ret = base(s), which returned b; if (ret && (sign != 1)) { ... }
power_sign(sign, b) ==
    IF b.ret # NULL /\ sign # 1
    THEN power_negate(b, new_expr(b.s, TE_FUNCTION1 + TE_FLAG_PURE, <<b.ret>>))
    ELSE b

\* The while loop of power over the leading signs, and the rest of power.
RECURSIVE power_signs(_, _)
power_signs(s, sign) ==
    IF IsInfix(s, {"add", "sub"})
    THEN power_signs(next_token(s), IF s.function = "sub" THEN -sign ELSE sign)
    ELSE power_sign(sign, base(s))

\* int sign = 1;
power(s) == power_signs(s, 1)

\* The block the loops of factor, term, expr and list share: the node a for
\* the operator t over ret and what the right operand returned, p.
\* if (ret_new) { ret = ret_new; ret->function = t; }
\* else { te_free(param); te_free(ret); return NULL; }
new_binary_node(t, ret, p, a) ==
    IF a.ret # NULL THEN Ret(NodeFunction(a.s, a.ret, t), a.ret)
    ELSE Ret(te_free(te_free(a.s, p.ret), ret), NULL)

\* if (!param) { te_free(ret); return NULL; }
\* te_expr *ret_new = NEW_EXPR(TE_FUNCTION2 | TE_FLAG_PURE, ret, param);
new_binary(t, ret, p) ==
    IF p.ret = NULL THEN Ret(te_free(p.s, ret), NULL)
    ELSE new_binary_node(t, ret, p,
                         new_expr(p.s, TE_FUNCTION2 + TE_FLAG_PURE, <<ret, p.ret>>))

\* The while loop of factor without TE_POW_FROM_RIGHT, entered with and
\* returning [s, ret]; a null ret returns at once.
RECURSIVE factor_loop(_)
factor_loop(r) ==
    IF r.ret = NULL \/ ~IsInfix(r.s, {"pow"}) THEN r
    ELSE factor_loop(new_binary(r.s.function, r.ret, power(next_token(r.s))))

factor_left(s) == factor_loop(power(s))

\* te_free(insertion); te_free(ret); return NULL; in the loop of factor under
\* TE_POW_FROM_RIGHT
factor_right_failed(s, ret, insertion) ==
    [s |-> te_free(te_free(s, insertion), ret), ret |-> NULL,
     insertion |-> insertion, ok |-> FALSE]

\* The node a for the operator t: hung below insertion (insert->function = t;
\* insertion->parameters[1] = insert; insertion = insert), or the first one
\* (ret = ret_new; ret->function = t; insertion = ret); without a node,
\* te_free(param) and the failure above.
factor_right_node(t, ret, insertion, p, a) ==
    IF a.ret = NULL THEN factor_right_failed(te_free(a.s, p.ret), ret, insertion)
    ELSE IF insertion # NULL
        THEN [s |-> NodeParameter(NodeFunction(a.s, a.ret, t), insertion, 1, a.ret),
              ret |-> ret, insertion |-> a.ret, ok |-> TRUE]
    ELSE [s |-> NodeFunction(a.s, a.ret, t), ret |-> a.ret, insertion |-> a.ret, ok |-> TRUE]

\* The body of the loop after te_expr *param = power(s), which returned p.
factor_right_param(t, ret, insertion, p) ==
    IF p.ret = NULL THEN factor_right_failed(p.s, ret, insertion)
    ELSE factor_right_node(t, ret, insertion, p,
             new_expr(p.s, TE_FUNCTION2 + TE_FLAG_PURE,
                      IF insertion # NULL
                      THEN <<p.s.array[insertion].parameters[1], p.ret>>
                      ELSE <<ret, p.ret>>))

\* The while loop of factor under TE_POW_FROM_RIGHT, entered with and
\* returning [s, ret, insertion, ok]; ok = FALSE where the source returns NULL.
RECURSIVE factor_right_loop(_)
factor_right_loop(l) ==
    IF ~l.ok \/ ~IsInfix(l.s, {"pow"}) THEN l
    ELSE factor_right_loop(
             factor_right_param(l.s.function, l.ret, l.insertion, power(next_token(l.s))))

\* if (ret_new) { ret = ret_new; ret->function = negate; }
\* else { te_free(insertion); te_free(ret); return NULL; }
factor_right_negate(l, a) ==
    IF a.ret # NULL THEN Ret(NodeFunction(a.s, a.ret, "negate"), a.ret)
    ELSE Ret(te_free(te_free(a.s, l.insertion), l.ret), NULL)

\* if (neg) { te_expr *ret_new = NEW_EXPR(TE_FUNCTION1 | TE_FLAG_PURE, ret); ... }
\* return ret;  with l what the loop left
factor_right_end(neg, l) ==
    IF ~l.ok THEN Ret(l.s, NULL)
    ELSE IF neg
        THEN factor_right_negate(l, new_expr(l.s, TE_FUNCTION1 + TE_FLAG_PURE, <<l.ret>>))
    ELSE Ret(l.s, l.ret)

\* te_expr *ret = power(s), which returned r; if (!ret) return NULL; and if
\* ret is negate(se): te_free_once(ret) frees only the top expression,
\* ret = se, neg = true.
factor_right_strip(r) ==
    IF r.ret = NULL THEN r
    ELSE IF r.s.array[r.ret].type = TE_FUNCTION1 + TE_FLAG_PURE
            /\ r.s.array[r.ret].function = "negate"
        THEN factor_right_end(TRUE,
                 factor_right_loop([s |-> te_free_once(r.s, r.ret),
                                    ret |-> r.s.array[r.ret].parameters[0],
                                    insertion |-> NULL, ok |-> TRUE]))
    ELSE factor_right_end(FALSE,
             factor_right_loop([s |-> r.s, ret |-> r.ret, insertion |-> NULL, ok |-> TRUE]))

factor_right(s) == factor_right_strip(power(s))

\* factor with TE_POW_FROM_RIGHT defined whatever the build.
factor_always_right(s) == factor_right(s)

factor(s) == IF s.cfg.pow_from_right THEN factor_right(s) ELSE factor_left(s)

\* The while loop of term, entered with and returning [s, ret]; a null ret
\* returns at once.
RECURSIVE term_loop(_)
term_loop(r) ==
    IF r.ret = NULL \/ ~IsInfix(r.s, {"mul", "divide", "fmod"}) THEN r
    ELSE term_loop(new_binary(r.s.function, r.ret, factor(next_token(r.s))))

term(s) == term_loop(factor(s))

RECURSIVE expr_loop(_)
expr_loop(r) ==
    IF r.ret = NULL \/ ~IsInfix(r.s, {"add", "sub"}) THEN r
    ELSE expr_loop(new_binary(r.s.function, r.ret, term(next_token(r.s))))

expr(s) == expr_loop(term(s))

RECURSIVE list_loop(_)
list_loop(r) ==
    IF r.ret = NULL \/ r.s.type # TOK_SEP THEN r
    ELSE list_loop(new_binary("comma", r.ret, expr(next_token(r.s))))

list(s) == list_loop(expr(s))

\* ------------------------------------------------------------------------
\* The functions behind the function pointers, and the evaluator
\* ------------------------------------------------------------------------

\* n! for 0 <= n, -1 when it leaves the exact range.
RECURSIVE Factorial(_)
Factorial(n) ==
    IF n = 0 THEN 1
    ELSE LET r == Factorial(n - 1)
         IN IF r = -1 \/ r * n > MaxExact THEN -1 ELSE r * n

\* fac: NaN below zero; the loop overflows unsigned long from 21! on.
fac(a) ==
    IF ~IsInt(a) THEN App("fac", <<a>>)
    ELSE IF a.n < 0 THEN NAN
    ELSE IF a.n > 20 THEN INFINITY
    ELSE IF Factorial(a.n) = -1 THEN App("fac", <<a>>)
    ELSE IntV(Factorial(a.n))

\* The loop of ncr: result = result * (un - ur + i) / i for i = 1..ur.
RECURSIVE NcrLoop(_, _, _, _)
NcrLoop(un, ur, i, result) ==
    IF i > ur THEN result
    ELSE IF result = -1 \/ result * (un - ur + i) > MaxExact THEN -1
    ELSE NcrLoop(un, ur, i + 1, (result * (un - ur + i)) \div i)

ncr(n, r) ==
    IF ~(IsInt(n) /\ IsInt(r)) THEN App("ncr", <<n, r>>)
    ELSE IF n.n < 0 \/ r.n < 0 \/ n.n < r.n THEN NAN
    ELSE LET ur == IF r.n > n.n \div 2 THEN n.n - r.n ELSE r.n
             c == NcrLoop(n.n, ur, 1, 1)
         IN IF c = -1 THEN App("ncr", <<n, r>>) ELSE IntV(c)

npr(n, r) == mul(ncr(n, r), fac(r))

fabs(a) == IF IsInt(a) THEN IntV(Abs(a.n)) ELSE IF a.k = "inf" THEN INFINITY
           ELSE IF IsNan(a) THEN NAN ELSE App("fabs", <<a>>)

\* The functions of tinyexpr.c and of the C library it points to.
LibraryFunctions ==
    {"add", "sub", "mul", "divide", "pow", "fmod", "negate", "comma", "fabs",
     "acos", "asin", "atan", "atan2", "ceil", "cos", "cosh", "e", "exp", "fac",
     "floor", "log", "log10", "ncr", "npr", "pi", "sin", "sinh", "sqrt", "tan",
     "tanh"}

\* The call through the function pointer f with the evaluated arguments v
\* (a sequence); a caller's function is an unknown function of its arguments
\* (and, for a closure, of its context).
Call(f, v, closure, context) ==
    IF closure THEN App(f, <<IntV(context)>> \o v)
    ELSE IF f = "add" /\ Len(v) = 2 THEN add(v[1], v[2])
    ELSE IF f = "sub" /\ Len(v) = 2 THEN sub(v[1], v[2])
    ELSE IF f = "mul" /\ Len(v) = 2 THEN mul(v[1], v[2])
    ELSE IF f = "divide" /\ Len(v) = 2 THEN divide(v[1], v[2])
    ELSE IF f = "pow" /\ Len(v) = 2 THEN pow(v[1], v[2])
    ELSE IF f = "fmod" /\ Len(v) = 2 THEN fmod(v[1], v[2])
    ELSE IF f = "comma" /\ Len(v) = 2 THEN comma(v[1], v[2])
    ELSE IF f = "negate" /\ Len(v) = 1 THEN negate(v[1], Zero)
    ELSE IF f = "fabs" /\ Len(v) = 1 THEN fabs(v[1])
    ELSE IF f = "fac" /\ Len(v) = 1 THEN fac(v[1])
    ELSE IF f = "ncr" /\ Len(v) = 2 THEN ncr(v[1], v[2])
    ELSE IF f = "npr" /\ Len(v) = 2 THEN npr(v[1], v[2])
    ELSE IF f \in {"ceil", "floor"} /\ Len(v) = 1 /\ IsInt(v[1]) THEN v[1]
    ELSE App(f, v)

RECURSIVE ConcatCalls(_, _)
ConcatCalls(results, slots) ==
    IF slots = << >> THEN << >>
    ELSE results[Head(slots)].calls \o ConcatCalls(results, Tail(slots))

\* te_eval(n) over the node memory `array` and the caller's doubles.  Returns
\* the value and the calls made to the caller's functions and closures, in
\* the order made.  C leaves the order in which the arguments M(0), M(1), ...
\* of one call are evaluated to the compiler: `order` is "ltr" or "rtl".
RECURSIVE te_eval(_, _, _, _)
te_eval(array, doubles, n, order) ==
    IF n = NULL THEN [v |-> NAN, calls |-> << >>]
    ELSE LET node == array[n]
             t == TYPE_MASK(node.type)
             arity == ARITY(node.type)
             closure == t >= TE_CLOSURE0 /\ t <= TE_CLOSURE7
             m == [i \in 0..(arity - 1) |-> te_eval(array, doubles, node.parameters[i], order)]
             slots == IF order = "ltr" THEN [i \in 1..arity |-> i - 1]
                      ELSE [i \in 1..arity |-> arity - i]
             own == IF node.function \in LibraryFunctions THEN << >> ELSE <<node.function>>
         IN IF t = TE_CONSTANT THEN [v |-> node.value, calls |-> << >>]
            ELSE IF t = TE_VARIABLE THEN
                [v |-> IF node.bound \in DOMAIN doubles THEN doubles[node.bound]
                       ELSE App("wild", << >>),
                 calls |-> << >>]
            ELSE IF t >= TE_FUNCTION0 /\ t <= TE_CLOSURE7 THEN
                [v |-> Call(node.function, [i \in 1..arity |-> m[i - 1].v], closure,
                            node.parameters[arity]),
                 calls |-> ConcatCalls(m, slots) \o own]
            ELSE [v |-> NAN, calls |-> << >>]

\* ------------------------------------------------------------------------
\* The optimizer and te_compile
\* ------------------------------------------------------------------------

RECURSIVE optimize(_, _)
RECURSIVE optimize_parameters(_, _, _, _, _)

\* The test of the for loop, taking a variable for a known value too.
is_constant_or_variable(s, p) == s.array[p].type \in {TE_CONSTANT, TE_VARIABLE}

\* The test of the for loop of optimize: parameter p is a constant node.
is_constant(s, p) == s.array[p].type = TE_CONSTANT

\* One pass of the for loop of optimize over the parameter p, s being the
\* state after optimize(n->parameters[i]).  Reading the type through a null
\* parameter is undefined: null_type is what the build makes of it ("crash",
\* or the word read is TE_CONSTANT or not).
optimize_parameter(s, null_type, n, i, arity, known, p) ==
    IF p = NULL
    THEN optimize_parameters([s EXCEPT !.ub = TRUE, !.crashed = @ \/ null_type = "crash"],
                             n, i + 1, arity, known /\ null_type = "constant")
    ELSE optimize_parameters(s, n, i + 1, arity, known /\ is_constant(s, p))

\* The for loop of optimize from parameter i; returns the state and `known`.
optimize_parameters(s, n, i, arity, known) ==
    IF i >= arity THEN [s |-> s, known |-> known]
    ELSE optimize_parameter(optimize(s, s.array[n].parameters[i]), s.null_type,
                            n, i, arity, known, s.array[n].parameters[i])

\* const double value = te_eval(n); te_free_parameters(n);
\* n->type = TE_CONSTANT; n->value = value;  with ev what te_eval returned
optimize_fold(s, n, ev) ==
    [NodeValue(te_free_parameters(s, n), n, ev.v) EXCEPT !.array[n].type = TE_CONSTANT,
                                                         !.calls = @ \o ev.calls]

\* if (known) { ... } with r what the for loop left
optimize_known(n, r) ==
    IF ~r.known THEN r.s
    ELSE optimize_fold(r.s, n, te_eval(r.s.array, r.s.doubles, n, "ltr"))

\* An optimize that does not look at TE_FLAG_PURE.
optimize_unflagged(s, n) ==
    IF n = NULL THEN s
    ELSE IF s.array[n].type = TE_CONSTANT \/ s.array[n].type = TE_VARIABLE THEN s
    ELSE optimize_known(n, optimize_parameters(s, n, 0, ARITY(s.array[n].type), TRUE))

optimize(s, n) ==
    IF n = NULL THEN s
    ELSE IF s.array[n].type = TE_CONSTANT \/ s.array[n].type = TE_VARIABLE THEN s
    ELSE IF ~IS_PURE(s.array[n].type) THEN s
    ELSE optimize_known(n, optimize_parameters(s, n, 0, ARITY(s.array[n].type), TRUE))

\* The allocator's globals before any allocation.
EmptyHeap(c, expr_) ==
    [array |-> [i \in 1..NCells(c, expr_) |-> ZeroNode],
     isAllocated |-> [i \in 1..NCells(c, expr_) |-> FALSE],
     released_twice |-> 0]

\* The state te_compile starts from: s.start = s.next = expression, the
\* lookup table, and around it the allocator's globals `h`, the caller's
\* doubles and what this build reads through a null pointer.
StartState(expr_, variables, c, h, mem, nt) ==
    [expr |-> expr_, next |-> 0, type |-> TOK_NULL,
     value |-> Zero, bound |-> "", function |-> "", context |-> NULL,
     lookup |-> variables, cfg |-> c,
     array |-> h.array, isAllocated |-> h.isAllocated,
     released_twice |-> h.released_twice,
     doubles |-> mem, null_type |-> nt,
     alloc_failed |-> FALSE, unresolved |-> -1, ub |-> FALSE, crashed |-> FALSE,
     calls |-> << >>, tokens |-> 0]

HeapOf(s) ==
    [array |-> s.array, isAllocated |-> s.isAllocated,
     released_twice |-> s.released_twice]

\* te_compile reporting s.next - s.start as it is.
te_compile_raw_root(r) ==
    IF r.ret # NULL THEN
        IF r.s.type # TOK_END
        THEN [root |-> NULL, error |-> r.s.next, s |-> te_free(r.s, r.ret)]
        ELSE [root |-> r.ret, error |-> 0, s |-> optimize(r.s, r.ret)]
    ELSE [root |-> NULL, error |-> 1, s |-> r.s]

te_compile_raw_offset(s0) == te_compile_raw_root(list(next_token(s0)))

\* te_compile after te_expr *root = list(&s), which returned r.
te_compile_root(r) ==
    IF r.ret # NULL THEN
        IF r.s.type # TOK_END
        THEN [root |-> NULL, error |-> IF r.s.next = 0 THEN 1 ELSE r.s.next,
              s |-> te_free(r.s, r.ret)]
        ELSE [root |-> r.ret, error |-> 0, s |-> optimize(r.s, r.ret)]
    ELSE [root |-> NULL, error |-> 1, s |-> r.s]

\* te_compile from the start state s0; returns the tree, *error and the state.
te_compile(s0) == te_compile_root(list(next_token(s0)))

\* ------------------------------------------------------------------------
\* The caller: a program that compiles an expression against its binding
\* table, evaluates the tree while writing its variables, and frees it
\* (src/example2.c).
\* ------------------------------------------------------------------------

VARIABLES
    cfg,          \* the build: [pow_from_right, static_memory]
    expression,   \* the text given to te_compile
    lookup,       \* the binding table given to te_compile
    doubles,      \* the caller's doubles, by address
    heap,         \* the allocator's globals and the node memory
    root,         \* the pointer te_compile returned
    error,        \* *error
    pc,           \* "start", "compiled", "freed" or "crashed"
    result,       \* the last te_eval: [valid, v, calls]
    info,         \* what happened inside the last te_compile
    compiles      \* the number of te_compile calls made

vars == <<cfg, expression, lookup, doubles, heap, root, error, pc, result, info, compiles>>

\* The most te_compile calls of one run.
MaxCompiles == 2

NoResult == [valid |-> FALSE, v |-> NAN, calls |-> << >>]

\* A te_variable of the caller: {name, address, type, context}.
Binding(name, address, type, context) ==
    [name |-> name, address |-> address, type |-> type, context |-> context]

\* The addresses of the variables a binding table binds.
Addresses(l) == {l[i].address : i \in {j \in DOMAIN l : TYPE_MASK(l[j].type) = TE_VARIABLE}}

\* The values the caller writes to its variables.
WriteValues == {IntV(3), IntV(10)}

InitWith(inputs) ==
    /\ cfg \in [pow_from_right : BOOLEAN, static_memory : BOOLEAN]
    /\ \E in \in inputs : expression = in.e /\ lookup = in.l
    /\ doubles = [a \in Addresses(lookup) |-> IntV(3)]
    /\ heap = EmptyHeap(cfg, expression)
    /\ root = NULL
    /\ error = 0
    /\ pc = "start"
    /\ result = NoResult
    /\ info = [alloc_failed |-> FALSE, unresolved |-> -1, ub |-> FALSE, calls |-> << >>,
               tokens |-> 0, next |-> 0, released_twice |-> 0]
    /\ compiles = 0

\* What te_compile, having returned r, leaves behind, as the caller and the
\* claims see it.
Outcome(r) ==
    [heap |-> HeapOf(r.s), root |-> r.root, error |-> r.error,
     crashed |-> r.s.crashed \/ (r.s.ub /\ ~cfg.static_memory),
     null_read |-> r.s.ub /\ cfg.static_memory,
     info |-> [alloc_failed |-> r.s.alloc_failed, unresolved |-> r.s.unresolved,
               ub |-> r.s.ub, calls |-> r.s.calls, tokens |-> r.s.tokens,
               next |-> r.s.next,
               released_twice |-> r.s.released_twice - heap.released_twice]]

CompileOutcome(nt) ==
    Outcome(te_compile(StartState(expression, lookup, cfg, heap, doubles, nt)))

\* n = te_compile(expression, vars, count, &err).  The build's reading of a
\* null pointer matters only to a compile that makes one.
Compile ==
    /\ pc \in {"start", "freed"}
    /\ compiles < MaxCompiles
    /\ \E r0 \in {CompileOutcome("crash")} :
        \E nt \in {"crash", "constant", "other"} :
            /\ nt = "crash" \/ r0.null_read
            /\ \E r \in {IF nt = "crash" THEN r0 ELSE CompileOutcome(nt)} :
                /\ heap' = r.heap
                /\ root' = r.root
                /\ error' = r.error
                /\ info' = r.info
                /\ pc' = IF r.crashed THEN "crashed" ELSE "compiled"
    /\ compiles' = compiles + 1
    /\ result' = NoResult
    /\ UNCHANGED <<cfg, expression, lookup, doubles>>

\* Whether the characters of name occur in str from offset i on.
RECURSIVE OccursFrom(_, _, _)
OccursFrom(name, str, i) ==
    IF i + Len(name) > Len(str) THEN FALSE
    ELSE IF \A k \in 1..Len(name) : str[i + k] = name[k] THEN TRUE
    ELSE OccursFrom(name, str, i + 1)

\* The variables of the binding table that the expression names.
Named == {lookup[i].address :
            i \in {j \in DOMAIN lookup : /\ TYPE_MASK(lookup[j].type) = TE_VARIABLE
                                         /\ OccursFrom(lookup[j].name, expression, 0)}}

\* x = v, between evaluations: the caller writes a variable its expression names
Write ==
    /\ pc = "compiled"
    /\ \E a \in Named, v \in WriteValues :
        /\ doubles[a] # v
        /\ doubles' = [doubles EXCEPT ![a] = v]
    /\ result' = NoResult
    /\ UNCHANGED <<cfg, expression, lookup, heap, root, error, pc, info, compiles>>

\* r = te_eval(n)
Eval ==
    /\ pc = "compiled"
    /\ \E order \in {"ltr", "rtl"} :
        \E r \in {te_eval(heap.array, doubles, root, order)} :
            result' = [valid |-> TRUE, v |-> r.v, calls |-> r.calls]
    /\ UNCHANGED <<cfg, expression, lookup, doubles, heap, root, error, pc, info, compiles>>

\* te_free(n)
Free ==
    /\ pc = "compiled"
    /\ \E s \in {te_free(StartState(expression, lookup, cfg, heap, doubles, "crash"), root)} :
          /\ heap' = HeapOf(s)
          /\ pc' = IF s.ub THEN "crashed" ELSE "freed"
    /\ result' = NoResult
    /\ UNCHANGED <<cfg, expression, lookup, doubles, root, error, info, compiles>>

Next == Compile \/ Write \/ Eval \/ Free

\* ------------------------------------------------------------------------
\* The inputs: expressions and binding tables
\* ------------------------------------------------------------------------

\* The longest expression of the exhaustive family.
MaxLen == 3

\* The most arguments written in a call.
MaxArgs == 8

\* The caller's context pointers.
Contexts == <<77, 78>>

\* One variable, as in src/example2.c.
LookupPlain == << Binding(<<"x">>, "x", TE_VARIABLE, NULL) >>

\* A table that also binds names of builtins (e, abs, pow) and functions and
\* closures of arity 3 and 7.
LookupShadow ==
    << Binding(<<"x">>, "x", TE_VARIABLE, NULL),
       Binding(<<"e">>, "ev", TE_VARIABLE, NULL),
       Binding(<<"a", "b", "s">>, "user_abs", TE_FUNCTION1, NULL),
       Binding(<<"p", "o", "w">>, "user_pow", TE_CLOSURE2, Contexts[1]),
       Binding(<<"g">>, "user_g", TE_FUNCTION0 + 3 + TE_FLAG_PURE, NULL),
       Binding(<<"h">>, "user_h", TE_CLOSURE0 + 3, Contexts[2]),
       Binding(<<"m">>, "user_m", TE_FUNCTION0 + 7, NULL),
       Binding(<<"k">>, "user_k", TE_CLOSURE1 + TE_FLAG_PURE, Contexts[1]) >>

RECURSIVE Flat(_)
Flat(words) == IF words = << >> THEN << >> ELSE Head(words) \o Flat(Tail(words))

\* Every string of at most MaxLen of these characters.
ShortInputs ==
    {[e |-> str, l |-> LookupPlain] :
        str \in UNION {[1..k -> {"2", "x", "e", "+", "-", "^", "(", ")", ",", " ", ".", "#"}] :
                          k \in 0..MaxLen}}

Operators == {"+", "-", "*", "/", "%", "^", ","}
OperandsA == {<<"2">>, <<"x">>}
OperandsB == {<<"3">>, <<"x">>}

\* a op b op c, (a op b) op c and a op (b op c).
ChainInputs ==
    {[e |-> Flat(<<a, <<op1>>, b, <<op2>>, c>>), l |-> LookupPlain] :
        a \in OperandsA, b \in OperandsB, c \in OperandsA,
        op1 \in Operators, op2 \in Operators}
    \cup
    {[e |-> Flat(<<<<"(">>, a, <<op1>>, b, <<")">>, <<op2>>, c>>), l |-> LookupPlain] :
        a \in OperandsA, b \in OperandsB, c \in OperandsA,
        op1 \in Operators, op2 \in Operators}
    \cup
    {[e |-> Flat(<<a, <<op1>>, <<"(">>, b, <<op2>>, c, <<")">>>>), l |-> LookupPlain] :
        a \in OperandsA, b \in OperandsB, c \in OperandsA,
        op1 \in Operators, op2 \in Operators}

\* -a^b, (-a)^b, -(a)^b, a^-b and the like: a sign and a power.
SignInputs ==
    {[e |-> Flat(<<pre, a, post, <<"^">>, sign2, b>>), l |-> LookupPlain] :
        pre \in {<<"-">>, <<"(", "-">>, <<"-", "(">>, <<"-", "-">>, <<"+">>, << >>},
        post \in {<< >>, <<")">>},
        sign2 \in {<< >>, <<"-">>},
        a \in OperandsA, b \in OperandsA}

Names ==
    {<<"e">>, <<"p", "i">>, <<"a", "b", "s">>, <<"p", "o", "w">>, <<"g">>, <<"h">>, <<"m">>}

RECURSIVE Arguments(_)
Arguments(n) ==
    IF n = 0 THEN << >>
    ELSE IF n = 1 THEN <<"1">>
    ELSE Arguments(n - 1) \o <<",", "1">>

\* name(1,...,1) with 0..MaxArgs arguments, with and without a last empty
\* argument; the name alone; the name and one argument without parentheses.
CallInputs ==
    {[e |-> Flat(<<pre, name, <<"(">>, Arguments(n), trailing, <<")">>>>), l |-> l] :
        pre \in {<< >>, <<"a", "b", "s", " ">>},
        name \in Names, n \in 0..MaxArgs, trailing \in {<< >>, <<",">>},
        l \in {LookupPlain, LookupShadow}}
    \cup
    {[e |-> Flat(<<name, rest>>), l |-> l] :
        name \in Names, rest \in {<< >>, <<" ", "1">>, <<"(">>, <<"(", "1">>},
        l \in {LookupPlain, LookupShadow}}

\* An identifier that nothing binds, after and before some text.
UnboundInputs ==
    {[e |-> Flat(<<pre, id, post>>), l |-> LookupPlain] :
        pre \in {<< >>, <<"1", "+">>, <<"a", "b", "s", "(">>, <<"p", "o", "w", "(", "1", ",">>,
                 <<"-">>, <<" ", "(">>},
        id \in {<<"f", "o", "o">>, <<"q">>, <<"c", "o", "5">>, <<"x", "_", "1">>},
        post \in {<< >>, <<"(", "1", ")">>, <<"+", "1">>, <<")">>}}

\* Two variables, and a op b over them.
LookupXY == << Binding(<<"x">>, "x", TE_VARIABLE, NULL), Binding(<<"y">>, "y", TE_VARIABLE, NULL) >>

BinaryInputs ==
    {[e |-> Flat(<<a, <<op>>, b>>), l |-> LookupXY] :
        a \in {<<"x">>, <<"y">>, <<"1">>}, b \in {<<"x">>, <<"y">>, <<"1">>},
        op \in Operators}

\* The expressions the documentation of the library gives as examples.
ExampleInputs ==
    {[e |-> str, l |-> LookupPlain] :
        str \in {<<"2", "+", "3", "*", "4">>, <<"(", "2", "+", "3", ")", "*", "4">>,
                 <<"-", "2", "^", "2">>, <<"2", "^", "2", "^", "3">>, <<"x", "+", "1">>,
                 <<"f", "o", "o", "(", "1", ")">>, <<"p", "o", "w", "(", "1", ")">>,
                 <<"1", ",", "2", ",", "3">>, <<"2", "+", "3">>, <<"5">>,
                 <<"f", "a", "c", "(", "5", ")">>, <<"s", "i", "n", "(", "c", "o", "s", "5">>}}

\* Calls of the caller's functions and closures with calls and sums as
\* arguments.
UserInputs ==
    {[e |-> str, l |-> LookupShadow] :
        str \in {<<"a", "b", "s", "(", "2", "+", "3", ")">>,
                 <<"k", "(", "1", ")">>, <<"k", "(", "x", ")">>,
                 <<"a", "b", "s", "(", "k", "(", "1", ")", ")">>,
                 <<"h", "(", "1", ",", "x", ",", "1", ")">>,
                 <<"a", "b", "s", "(", "1", ")", "+", "k", "(", "x", ")">>,
                 <<"p", "o", "w", "(", "a", "b", "s", "(", "1", ")", ",",
                   "k", "(", "x", ")", ")">>}}

\* The names of the builtins, what is left of each when its last characters
\* are dropped, and each with one more character or another last character.
BuiltinNames == {functions[i].name : i \in DOMAIN functions}
NearNames ==
    UNION {{SubSeq(n, 1, k) : k \in 1..Len(n)}
           \cup {SubSeq(n, 1, k) \o <<c>> : k \in (Len(n) - 1)..Len(n),
                                            c \in {"0", "2", "a", "h", "z", "_"}} :
           n \in BuiltinNames}

\* An expression that is one identifier.
IdentifierInputs ==
    {[e |-> id, l |-> LookupPlain] : id \in {n \in NearNames \cup {<<"x">>} : IsLower(n[1])}}

Inputs ==
    ShortInputs \cup ChainInputs \cup SignInputs \cup CallInputs \cup UnboundInputs
    \cup BinaryInputs \cup ExampleInputs \cup UserInputs \cup IdentifierInputs

Init == InitWith(Inputs)

Spec == Init /\ [][Next]_vars

\* The same program over one family of inputs.
SpecBinary == InitWith(BinaryInputs \cup ExampleInputs) /\ [][Next]_vars

SpecChain == InitWith(ChainInputs \cup SignInputs \cup ExampleInputs) /\ [][Next]_vars

SpecCall ==
    InitWith(CallInputs \cup UnboundInputs \cup ExampleInputs \cup UserInputs) /\ [][Next]_vars

SpecIdentifier == InitWith(IdentifierInputs) /\ [][Next]_vars

\* ------------------------------------------------------------------------
\* Claims
\* ------------------------------------------------------------------------

\* te_compile has returned (it has not crashed) and the tree is not yet freed.
Returned == pc = "compiled"

Live == {i \in DOMAIN heap.isAllocated : heap.isAllocated[i]}

\* C1: te_compile returns either a non-null tree with error offset 0 or a
\* null tree with an error offset >= 1, never a tree with a nonzero offset nor
\* null with offset 0.
C1_TreeOrOffset ==
    Returned => \/ root # NULL /\ error = 0
                \/ root = NULL /\ error >= 1

\* A failed compile whose lexer never advanced: the offset 0 is reported as 1.
C1_Witness ==
    /\ Returned /\ root = NULL /\ error = 1
    /\ expression = <<".">>
    /\ ~info.alloc_failed

\* The operator a character of the grammar stands for.
Apply(op, u, v) ==
    CASE op = "+" -> add(u, v)
      [] op = "-" -> sub(u, v)
      [] op = "*" -> mul(u, v)
      [] op = "/" -> divide(u, v)
      [] op = "%" -> fmod(u, v)
      [] op = "^" -> pow(u, v)
      [] op = "," -> comma(u, v)

\* What an operand of the input families is worth now: a digit, or the
\* caller's variable as it is at this moment.
ValueOf(a) == IF IsDigit(a[1]) THEN IntV(DigitVal(a[1])) ELSE doubles[a[1]]

BinaryOperands == {<<"x">>, <<"y">>, <<"1">>}

\* C2: a compiled tree reads its bound variables at each te_eval: after the
\* caller writes a variable, te_eval of the same tree, with no recompilation,
\* returns the value of the expression under the variables' current values.
C2_CurrentValues ==
    \A a \in BinaryOperands, b \in BinaryOperands, op \in Operators :
        (Returned /\ result.valid /\ expression = Flat(<<a, <<op>>, b>>))
            => /\ root # NULL
               /\ result.v = Apply(op, ValueOf(a), ValueOf(b))

\* "x+1" compiled once with x = 3, then evaluated after x = 10 was written.
C2_Witness ==
    /\ Returned /\ result.valid /\ compiles = 1
    /\ expression = <<"x", "+", "1">>
    /\ doubles["x"] = IntV(10)
    /\ result.v = IntV(11)

\* te_compile has returned after its scanner met an identifier that neither
\* table binds, and every node it asked for was allocated.
FailedOnIdentifier == Returned /\ info.unresolved # -1 /\ ~info.alloc_failed

\* C3: when compile fails because an identifier is neither a caller binding
\* nor a builtin, it returns a null tree and the error offset is the 1-based
\* position of the identifier's last character (the scanner's position just
\* past the identifier); that is the identifier's start only when the
\* identifier is one character long.
C3_OffsetPastIdentifier ==
    FailedOnIdentifier
        => /\ root = NULL
           /\ error = IdentEnd(expression, info.unresolved)

\* "foo(1)" with no binding named foo: null, and the offset 3 of the last o.
C3_Witness ==
    /\ FailedOnIdentifier
    /\ expression = <<"f", "o", "o", "(", "1", ")">>
    /\ info.unresolved = 0
    /\ root = NULL /\ error = 3

\* C3 as stated: the offset is the 1-based position of the identifier's first
\* character.
C3_OffsetAtStart ==
    FailedOnIdentifier => root = NULL /\ error = info.unresolved + 1

\* te_eval has returned the value of a tree that te_compile built with every
\* node it asked for.
Evaluated == Returned /\ result.valid /\ ~info.alloc_failed

\* C4: "-a^b" is parsed as -(a^b) in the TE_POW_FROM_RIGHT configuration
\* only ("-2^2" is -4 there); in the default configuration the sign binds
\* tighter than '^' and "-a^b" is (-a)^b, so "-2^2" evaluates to 4.
C4_SignAndPower ==
    \A a \in OperandsA, b \in OperandsA :
        (Evaluated /\ expression = Flat(<< <<"-">>, a, <<"^">>, b >>))
            => /\ root # NULL
               /\ result.v = IF cfg.pow_from_right
                             THEN negate(pow(ValueOf(a), ValueOf(b)), Zero)
                             ELSE pow(negate(ValueOf(a), Zero), ValueOf(b))

\* "-2^2" in the default configuration: 4.
C4_Witness ==
    /\ Evaluated /\ ~cfg.pow_from_right
    /\ expression = <<"-", "2", "^", "2">>
    /\ result.v = IntV(4)

\* C4 as stated: "-a^b" is -(a^b) whatever the configuration.
C4_MinusLooserThanPower ==
    \A a \in OperandsA, b \in OperandsA :
        (Evaluated /\ expression = Flat(<< <<"-">>, a, <<"^">>, b >>))
            => result.v = negate(pow(ValueOf(a), ValueOf(b)), Zero)

\* The binding strength of an infix operator of the grammar: <list>, <expr>,
\* <term>, <factor>.
Level(op) ==
    CASE op = "," -> 0
      [] op \in {"+", "-"} -> 1
      [] op \in {"*", "/", "%"} -> 2
      [] op = "^" -> 3

Arithmetic == Operators \ {","}

\* The expression is three operands of the chain family at the places i, j,
\* k and two operators at the places p, q, in Len characters.
IsChain(len, i, p, j, q, k, ops) ==
    /\ Len(expression) = len
    /\ <<expression[i]>> \in OperandsA \cup OperandsB /\ expression[p] \in ops
    /\ <<expression[j]>> \in OperandsA \cup OperandsB /\ expression[q] \in ops
    /\ <<expression[k]>> \in OperandsA \cup OperandsB

\* "a op1 b op2 c", "(a op1 b) op2 c" and "a op1 (b op2 c)".
PlainChain(ops) == IsChain(5, 1, 2, 3, 4, 5, ops)
LeftGrouped(ops) ==
    IsChain(7, 2, 3, 4, 6, 7, ops) /\ expression[1] = "(" /\ expression[5] = ")"
RightGrouped(ops) ==
    IsChain(7, 1, 2, 4, 5, 6, ops) /\ expression[3] = "(" /\ expression[7] = ")"

ValueAt(i) == ValueOf(<<expression[i]>>)

\* What operands at i, j, k with operators at p, q are worth when the
\* operator at q is applied first, and when the one at p is.
RightFirst(i, p, j, q, k) ==
    Apply(expression[p], ValueAt(i), Apply(expression[q], ValueAt(j), ValueAt(k)))
LeftFirst(i, p, j, q, k) ==
    Apply(expression[q], Apply(expression[p], ValueAt(i), ValueAt(j)), ValueAt(k))

\* The tighter operator of "a op1 b op2 c" is applied first, and parentheses
\* around two operands and their operator make that operator the first.
BinaryPrecedence ==
    /\ (Evaluated /\ PlainChain(Arithmetic) /\ Level(expression[4]) > Level(expression[2]))
          => result.v = RightFirst(1, 2, 3, 4, 5)
    /\ (Evaluated /\ PlainChain(Arithmetic) /\ Level(expression[2]) > Level(expression[4]))
          => result.v = LeftFirst(1, 2, 3, 4, 5)
    /\ (Evaluated /\ LeftGrouped(Arithmetic)) => result.v = LeftFirst(2, 3, 4, 6, 7)
    /\ (Evaluated /\ RightGrouped(Arithmetic)) => result.v = RightFirst(1, 2, 4, 5, 6)

\* A parenthesized negation is a unit to the '^' that follows it.
NegationIsUnit ==
    \A a \in OperandsA, b \in OperandsA :
        (Evaluated /\ expression = Flat(<< <<"(", "-">>, a, <<")", "^">>, b >>))
            => result.v = pow(negate(ValueOf(a), Zero), ValueOf(b))

\* C5: '*', '/' and '%' bind tighter than '+' and '-', '^' binds tighter than
\* '*', and a parenthesized sub-expression is evaluated as a unit: "a+b*c" is
\* a+(b*c), "(a+b)*c" is (a+b)*c, and "(-a)^b" is the power of the unit -a.
C5_PrecedenceAndUnits == BinaryPrecedence /\ NegationIsUnit

\* "(-2)^2" under TE_POW_FROM_RIGHT: the sign is taken out of the parentheses
\* and the value is -4.
C5_Witness ==
    /\ Evaluated /\ cfg.pow_from_right
    /\ expression = <<"(", "-", "2", ")", "^", "2">>
    /\ result.v = IntV(-4)

\* te_compile has returned with every node it asked for allocated.
Compiled == Returned /\ ~info.alloc_failed

\* The function an infix character stands for in a node.
FunctionOf(op) ==
    CASE op = "+" -> "add"
      [] op = "-" -> "sub"
      [] op = "*" -> "mul"
      [] op = "/" -> "divide"
      [] op = "%" -> "fmod"
      [] op = "^" -> "pow"
      [] op = "," -> "comma"

Binary == TE_FUNCTION2 + TE_FLAG_PURE

\* Node n is the operand written at place i: a constant or the variable.
IsLeaf(n, i) ==
    /\ n # NULL
    /\ IF IsDigit(expression[i])
       THEN heap.array[n].type = TE_CONSTANT /\ heap.array[n].value = ValueAt(i)
       ELSE heap.array[n].type = TE_VARIABLE /\ heap.array[n].bound = expression[i]

\* Node n applies the operator at p to the operands at i and j, or is the
\* constant that optimize folded that application to.
IsApplication(n, i, p, j) ==
    /\ n # NULL
    /\ IF heap.array[n].type = TE_CONSTANT
       THEN /\ IsDigit(expression[i]) /\ IsDigit(expression[j])
            /\ heap.array[n].value = Apply(expression[p], ValueAt(i), ValueAt(j))
       ELSE /\ heap.array[n].type = Binary
            /\ heap.array[n].function = FunctionOf(expression[p])
            /\ IsLeaf(heap.array[n].parameters[0], i)
            /\ IsLeaf(heap.array[n].parameters[1], j)

\* The tree at root is (a op1 b) op2 c, or the constant it was folded to.
LeftTree ==
    /\ root # NULL
    /\ IF heap.array[root].type = TE_CONSTANT
       THEN /\ \A i \in {1, 3, 5} : IsDigit(expression[i])
            /\ heap.array[root].value = LeftFirst(1, 2, 3, 4, 5)
       ELSE /\ heap.array[root].type = Binary
            /\ heap.array[root].function = FunctionOf(expression[4])
            /\ IsApplication(heap.array[root].parameters[0], 1, 2, 3)
            /\ IsLeaf(heap.array[root].parameters[1], 5)

\* The tree at root is a op1 (b op2 c), or the constant it was folded to.
RightTree ==
    /\ root # NULL
    /\ IF heap.array[root].type = TE_CONSTANT
       THEN /\ \A i \in {1, 3, 5} : IsDigit(expression[i])
            /\ heap.array[root].value = RightFirst(1, 2, 3, 4, 5)
       ELSE /\ heap.array[root].type = Binary
            /\ heap.array[root].function = FunctionOf(expression[2])
            /\ IsLeaf(heap.array[root].parameters[0], 1)
            /\ IsApplication(heap.array[root].parameters[1], 3, 4, 5)

SameLevel == PlainChain(Operators) /\ Level(expression[2]) = Level(expression[4])

\* C6: in the default configuration a chain "a op b op c" of same-level infix
\* operators, '^' included, builds the tree (a op b) op c, so "2^2^3" is 64;
\* in the TE_POW_FROM_RIGHT configuration a chain of '^' builds a ^ (b ^ c),
\* so "2^2^3" is 256, and the other chains stay left-associative.
C6_Associativity ==
    /\ (Compiled /\ SameLevel /\ ~(cfg.pow_from_right /\ expression[2] = "^"))
          => /\ LeftTree
             /\ result.valid => result.v = LeftFirst(1, 2, 3, 4, 5)
    /\ (Compiled /\ SameLevel /\ cfg.pow_from_right /\ expression[2] = "^")
          => /\ RightTree
             /\ result.valid => result.v = RightFirst(1, 2, 3, 4, 5)

\* "2^2^3" evaluated in the default configuration: 64.
C6_Witness ==
    /\ Compiled /\ result.valid /\ ~cfg.pow_from_right
    /\ expression = <<"2", "^", "2", "^", "3">>
    /\ LeftTree
    /\ result.v = IntV(64)

\* The expression is one call: a name, "(", n arguments "1" separated by
\* commas, ")".
NameEnd == IdentEnd(expression, 0)
CallName == SubSeq(expression, 1, NameEnd)
CallCount ==
    IF Len(expression) - NameEnd = 2 THEN 0 ELSE (Len(expression) - NameEnd - 1) \div 2
IsCall ==
    /\ NameEnd > 0
    /\ Len(expression) >= NameEnd + 2
    /\ SubSeq(expression, NameEnd + 1, Len(expression))
          = <<"(">> \o Arguments(CallCount) \o <<")">>

\* What a name stands for: the caller's binding of that name if there is one,
\* otherwise the builtin of that name.
CallerBindings(name) == {lookup[i] : i \in {j \in DOMAIN lookup : lookup[j].name = name}}
Builtins(name) == {functions[i] : i \in {j \in DOMAIN functions : functions[j].name = name}}
Resolved(name) ==
    IF CallerBindings(name) # {} THEN CHOOSE b \in CallerBindings(name) : TRUE
    ELSE CHOOSE b \in Builtins(name) : TRUE

\* The expression is a call of a function or closure that something binds.
IsFunctionCall ==
    /\ IsCall
    /\ CallerBindings(CallName) \cup Builtins(CallName) # {}
    /\ TYPE_MASK(Resolved(CallName).type) # TE_VARIABLE

CallArity == ARITY(Resolved(CallName).type)

Failed == root = NULL /\ error # 0
Succeeded == root # NULL /\ error = 0

\* C7: a call to a function or closure of arity 0 or 2 to 7 that supplies a
\* number of comma-separated arguments different from its arity is a syntax
\* error (null, nonzero offset), as is a call of arity 1 with no argument; a
\* call that supplies as many arguments as the arity compiles; and a function
\* of arity 1 followed by a parenthesized list of two or more arguments
\* compiles too: it is applied to the value of the list, its last element.
C7_ArgumentCount ==
    (Compiled /\ IsFunctionCall)
        => /\ CallCount = CallArity => Succeeded
           /\ (CallCount # CallArity /\ CallArity # 1) => Failed
           /\ (CallArity = 1 /\ CallCount = 0) => Failed
           /\ (CallArity = 1 /\ CallCount >= 1)
                 => /\ Succeeded
                    /\ result.valid
                          => result.v = Call(Resolved(CallName).address, <<IntV(1)>>,
                                             IS_CLOSURE(Resolved(CallName).type),
                                             Resolved(CallName).context)

\* "pow(1)" with the builtin pow: null and a nonzero offset.
C7_Witness ==
    /\ Compiled /\ IsFunctionCall
    /\ expression = <<"p", "o", "w", "(", "1", ")">>
    /\ lookup = LookupPlain
    /\ CallArity = 2 /\ CallCount = 1
    /\ Failed

\* C7 as stated: any number of arguments other than the arity, for every arity
\* 0 to 7, is a syntax error.
C7_WrongCountFails ==
    (Compiled /\ IsFunctionCall /\ CallCount # CallArity) => Failed

\* te_compile has returned in the fixed-pool configuration after new_expr
\* found no free cell.
PoolExhausted == Returned /\ cfg.static_memory /\ info.alloc_failed

\* C8: in the fixed-pool configuration, whenever a node allocation fails
\* during te_compile, te_compile returns null with error offset 1: never a
\* tree, never success.
C8_ExhaustionReported == PoolExhausted => root = NULL /\ error = 1

\* A tree with a missing child returned as a success.
C8_Witness ==
    /\ PoolExhausted /\ Succeeded /\ ~info.ub
    /\ \E i \in 0..(ARITY(heap.array[root].type) - 1) : heap.array[root].parameters[i] = NULL

\* The nodes of the tree at n.
RECURSIVE Nodes(_)
Nodes(n) ==
    IF n = NULL THEN {}
    ELSE {n} \cup UNION {Nodes(heap.array[n].parameters[i]) :
                            i \in 0..(ARITY(heap.array[n].type) - 1)}

\* No node is live but those of a returned tree that is not yet freed.
NoLeak ==
    /\ (Returned /\ root = NULL) => Live = {}
    /\ (Returned /\ root # NULL) => Live = Nodes(root)
    /\ pc \in {"start", "freed"} => Live = {}

\* C9: every node allocated by te_compile is released exactly once: none is
\* live after a failed compile or after te_free of a returned tree, the live
\* nodes of a returned tree are those of the tree, and no node is released
\* twice.
C9_ReleasedOnce == NoLeak /\ heap.released_twice = 0

\* "2^3^2" under TE_POW_FROM_RIGHT with a pool of three cells: the failed
\* compile has released nodes that were already released.
C9_Witness ==
    /\ Returned /\ cfg.pow_from_right /\ cfg.static_memory
    /\ expression = <<"2", "^", "3", "^", "2">>
    /\ root = NULL /\ Live = {}
    /\ info.released_twice > 0

\* The expression starts with a name that both the caller and the builtin
\* table bind.
Shadowing ==
    /\ NameEnd > 0
    /\ CallerBindings(CallName) # {}
    /\ Builtins(CallName) # {}

CallerBinding == CHOOSE b \in CallerBindings(CallName) : TRUE
ShadowedBuiltin == CHOOSE b \in Builtins(CallName) : TRUE

\* The first token te_compile reads.
FirstToken == next_token(StartState(expression, lookup, cfg, heap, doubles, "crash"))

\* Token t carries the kind, address and context of binding b.
TokenCarries(t, b) ==
    IF TYPE_MASK(b.type) = TE_VARIABLE
    THEN t.type = TOK_VARIABLE /\ t.bound = b.address
    ELSE /\ t.type = b.type /\ t.function = b.address
         /\ IS_CLOSURE(b.type) => t.context = b.context

\* Node n carries the kind, address and context of binding b.
NodeCarries(n, b) ==
    IF TYPE_MASK(b.type) = TE_VARIABLE
    THEN heap.array[n].type = TE_VARIABLE /\ heap.array[n].bound = b.address
    ELSE /\ heap.array[n].type = b.type /\ heap.array[n].function = b.address
         /\ IS_CLOSURE(b.type) => heap.array[n].parameters[ARITY(b.type)] = b.context

\* C10: identifier resolution consults the caller's binding table before the
\* builtin table: for an identifier that names both a caller binding and a
\* builtin, the token carries the caller binding's kind, address and context,
\* and so does its node in the compiled tree; no node carries the builtin's.
C10_CallerBindingFirst ==
    /\ Shadowing => TokenCarries(FirstToken, CallerBinding)
    /\ (Compiled /\ Succeeded /\ Shadowing /\ ~IS_PURE(CallerBinding.type))
          => /\ \E n \in Nodes(root) : NodeCarries(n, CallerBinding)
             /\ \A n \in Nodes(root) :
                   heap.array[n].function # ShadowedBuiltin.address

\* "pow(1,1)" with pow bound to the caller's closure of two arguments.
C10_Witness ==
    /\ Compiled /\ Succeeded /\ Shadowing
    /\ expression = <<"p", "o", "w", "(", "1", ",", "1", ")">>
    /\ heap.array[root].type = TE_CLOSURE2
    /\ heap.array[root].function = "user_pow"
    /\ heap.array[root].parameters[2] = Contexts[1]

\* The expression is a sequence of three elements separated by commas, bare or
\* with two of them in parentheses.
CommaSequence == PlainChain({","}) \/ LeftGrouped({","}) \/ RightGrouped({","})

\* The place of the last operand of a chain.
LastPlace == IF expression[Len(expression)] = ")" THEN Len(expression) - 1 ELSE Len(expression)

\* C11: a comma sequence e1,e2,...,en, at the top level of the expression and
\* inside parentheses, compiles and evaluates to the value of its last element
\* en: "1,2,3" is 3, "a,b,c", "(a,b),c" and "a,(b,c)" are c, and a
\* parenthesized pair "(a,b)" used as an operand is worth b.
C11_CommaSequence ==
    /\ (Compiled /\ CommaSequence)
          => /\ Succeeded
             /\ result.valid => result.v = ValueAt(LastPlace)
    /\ (Compiled /\ expression = <<"1", ",", "2", ",", "3">>)
          => /\ Succeeded
             /\ result.valid => result.v = IntV(3)
    /\ (Compiled /\ LeftGrouped(Operators) /\ expression[3] = ",")
          => /\ Succeeded
             /\ result.valid => result.v = Apply(expression[6], ValueAt(4), ValueAt(7))
    /\ (Compiled /\ RightGrouped(Operators) /\ expression[5] = ",")
          => /\ Succeeded
             /\ result.valid => result.v = Apply(expression[2], ValueAt(1), ValueAt(6))

\* "1,2,3" evaluated: 3.
C11_Witness ==
    /\ Compiled /\ Succeeded /\ result.valid
    /\ expression = <<"1", ",", "2", ",", "3">>
    /\ result.v = IntV(3)

\* Node n is flagged pure and every one of its children is a constant node.
Foldable(n) ==
    /\ IS_PURE(heap.array[n].type)
    /\ \A i \in 0..(ARITY(heap.array[n].type) - 1) :
          /\ heap.array[n].parameters[i] # NULL
          /\ heap.array[heap.array[n].parameters[i]].type = TE_CONSTANT

\* The tree at root is the one constant node of value v.
SingleConstant(v) ==
    /\ root # NULL
    /\ heap.array[root].type = TE_CONSTANT /\ heap.array[root].value = v
    /\ Live = {root}

\* C12: in every tree a successful te_compile returns, no node flagged pure,
\* anywhere in the tree, has all of its children constant nodes; and "2+3"
\* compiles to the single constant node 5, as "5" does.
C12_AllFolded ==
    /\ (Compiled /\ Succeeded) => \A n \in Nodes(root) : ~Foldable(n)
    /\ (Compiled /\ expression \in {<<"2", "+", "3">>, <<"5">>}) => SingleConstant(IntV(5))

\* "abs(2+3)" with abs bound to a function of the caller that is not flagged
\* pure: the sum under it is still the node add(2, 3).
C12_Witness ==
    /\ Compiled /\ Succeeded
    /\ expression = <<"a", "b", "s", "(", "2", "+", "3", ")">>
    /\ heap.array[root].type = TE_FUNCTION1
    /\ heap.array[root].function = "user_abs"
    /\ heap.array[heap.array[root].parameters[0]].type = Binary
    /\ heap.array[heap.array[root].parameters[0]].function = "add"
    /\ Foldable(heap.array[root].parameters[0])

\* The functions and closures of the caller's table that carry TE_FLAG_PURE.
PureCallables ==
    {lookup[i].address : i \in {j \in DOMAIN lookup : IS_PURE(lookup[j].type)}}

\* The variable nodes of the returned tree, and the places of the expression
\* where a variable of the table that binds x and e is named.
VariableNodes == {n \in Nodes(root) : heap.array[n].type = TE_VARIABLE}
VariablePlaces == {i \in DOMAIN expression : expression[i] \in {"x", "e"}}

\* The expression is a call, with as many arguments "1" as its arity, of a
\* closure of the caller.
IsClosureCall ==
    /\ IsFunctionCall
    /\ CallerBindings(CallName) # {}
    /\ IS_CLOSURE(Resolved(CallName).type)
    /\ CallCount = CallArity

SourceOrder == te_eval(heap.array, doubles, root, "ltr").calls

\* C14: te_eval of a function or closure node of arity k evaluates its k
\* children left to right, each once, and then calls the function pointer, so
\* the calls made to the caller's impure callables during one evaluation are
\* made in left-to-right source order: abs then k for "abs(1)+k(x)", and abs,
\* k, pow for "pow(abs(1),k(x))".
C14_LeftToRight ==
    /\ Evaluated => result.calls = SourceOrder
    /\ (Evaluated /\ lookup = LookupShadow
          /\ expression = <<"a", "b", "s", "(", "1", ")", "+", "k", "(", "x", ")">>)
          => result.calls = <<"user_abs", "user_k">>
    /\ (Evaluated /\ lookup = LookupShadow
          /\ expression = <<"p", "o", "w", "(", "a", "b", "s", "(", "1", ")", ",",
                            "k", "(", "x", ")", ")">>)
          => result.calls = <<"user_abs", "user_k", "user_pow">>

\* "pow(abs(1),k(x))" evaluated by a build that evaluates the arguments of a
\* call from the last to the first: k is called before abs.
C14_Witness ==
    /\ Evaluated /\ lookup = LookupShadow
    /\ expression = <<"p", "o", "w", "(", "a", "b", "s", "(", "1", ")", ",",
                      "k", "(", "x", ")", ")">>
    /\ heap.array[root].type = TE_CLOSURE2
    /\ result.calls = <<"user_k", "user_abs", "user_pow">>

\* The expression is one identifier: a lowercase letter, then letters, digits
\* and underscores to the end.
IsIdentifier ==
    /\ Len(expression) > 0
    /\ IsLower(expression[1])
    /\ IdentEnd(expression, 0) = Len(expression)

\* The entry of the catalogue whose name is the identifier, character for
\* character: its place in functions, 0 when there is none.
ExactEntry(id) ==
    IF \E i \in DOMAIN functions : functions[i].name = id
    THEN CHOOSE i \in DOMAIN functions : functions[i].name = id
    ELSE 0

\* a is before b in the order of strcmp.
RECURSIVE Before(_, _, _)
Before(a, b, k) ==
    IF At(a, k) # At(b, k) THEN Ord(At(a, k)) < Ord(At(b, k))
    ELSE IF At(a, k) = NUL THEN FALSE
    ELSE Before(a, b, k + 1)

StrictlySorted ==
    \A i \in 1..(Len(functions) - 1) : Before(functions[i].name, functions[i + 1].name, 0)

\* C15: builtin lookup is exact: for an identifier of any length find_builtin
\* returns the entry of the catalogue whose name equals the identifier
\* character for character when there is one, and nothing otherwise ("lo",
\* "log1" and "sinh2" match nothing); the catalogue is strictly sorted by
\* name; and an identifier that the caller does not bind is an error token
\* exactly when no builtin has its name.
C15_ExactBuiltin ==
    /\ StrictlySorted
    /\ IsIdentifier
          => find_builtin(expression, 0, Len(expression)) = ExactEntry(expression)
    /\ (Compiled /\ IsIdentifier /\ CallerBindings(expression) = {})
          => (info.unresolved = 0 <=> Builtins(expression) = {})

\* "log1" compiled: no builtin matches, though "log" and "log10" are builtins.
C15_Witness ==
    /\ Compiled /\ IsIdentifier
    /\ expression = <<"l", "o", "g", "1">>
    /\ find_builtin(expression, 0, 4) = 0
    /\ find_builtin(expression, 0, 3) = ExactEntry(<<"l", "o", "g">>)
    /\ ExactEntry(<<"l", "o", "g">>) # 0
    /\ info.unresolved = 0 /\ Failed

\* The token next_token produces when the input pointer is at offset i.
TokenAt(i) ==
    next_token([StartState(expression, lookup, cfg, heap, doubles, "crash") EXCEPT !.next = i])

\* C16: every call of next_token that produces a token other than the end
\* token leaves the input pointer past that token, at least one character
\* further than it was; and whitespace is never a token: the token produced
\* at a blank is the token produced after it.
C16_TokenAdvances ==
    \A i \in 0..Len(expression) :
        /\ TokenAt(i).type # TOK_END => TokenAt(i).next > i
        /\ TokenAt(i).type # TOK_NULL
        /\ At(expression, i) = " " => TokenAt(i) = TokenAt(i + 1)

\* ".": the first call of next_token has produced a number token, 0, and has
\* left the input pointer at the start; te_compile has reported offset 1.
C16_Witness ==
    /\ Returned /\ Failed /\ error = 1
    /\ expression = <<".">>
    /\ FirstToken.type = TOK_NUMBER
    /\ FirstToken.value = Zero
    /\ FirstToken.next = 0

\* C17: te_compile terminates on every expression and binding table: when
\* it has returned (or stopped at an undefined read), all its loops and
\* recursive descents together have called next_token at most once per
\* character of the expression and once more, a '.' that the lexer cannot
\* advance over included.
C17_Terminates ==
    /\ pc \in {"compiled", "crashed"}
          => /\ info.tokens >= 1
             /\ info.tokens <= Len(expression) + 1

\* "2+.": next_token was called four times, twice at the '.', and te_compile
\* has returned the error offset 2.
C17_Witness ==
    /\ Returned /\ Failed /\ ~info.alloc_failed
    /\ expression = <<"2", "+", ".">>
    /\ info.tokens = 4
    /\ error = 2

\* The larger of two numbers.
Max(a, b) == IF a >= b THEN a ELSE b

\* C18: whenever te_compile fails, the error offset it reports lies within
\* the expression, 1 <= offset <= max(1, length of the expression); the input
\* pointer never leaves the expression and its terminating NUL; so a caller
\* may print offset - 1 leading characters to place a caret.
C18_OffsetWithin ==
    /\ (Returned /\ root = NULL)
          => /\ error >= 1
             /\ error <= Max(1, Len(expression))
             /\ error \in {1, info.next}
    /\ pc \in {"compiled", "crashed"} => info.next \in 0..Len(expression)

\* "2+": the parser stopped at the end of the expression, and the offset is
\* its length, 2.
C18_Witness ==
    /\ Returned /\ Failed /\ ~info.alloc_failed
    /\ expression = <<"2", "+">>
    /\ info.next = 2
    /\ error = 2

====
